---- MODULE Spec2Model ----
(***************************************************************************)
(* Model of the natural-language query engine of query_processor.py        *)
(* (class QueryProcessor) and of the three request operations main.py      *)
(* exposes on it: process_query, explain_query and validate_query.         *)
(*                                                                         *)
(* Texts, pseudo-SQL and column names are strings; they are taken apart    *)
(* and put together character by character with Len, SubSeq and \o, so     *)
(* that the regular expressions of the source, the substring tests of the  *)
(* mappers and the executor's re-parsing of the pseudo-SQL are computed    *)
(* as the code computes them.                                              *)
(*                                                                         *)
(* A Python exception is modelled as a result whose field `raised` names   *)
(* the exception class ("" when the call returns normally).  Python's None *)
(* is the empty tuple and a present value v is <<v>> (None / Some).        *)
(***************************************************************************)
EXTENDS Integers, Sequences, FiniteSets, TLC

(***************************************************************************)
(* Bounds of the model.                                                    *)
(* A call of process_query consumes a stream of random draws; the stream   *)
(* is a cyclic word of RandPeriod draws, each draw one of RandSteps + 1    *)
(* evenly spaced points of the range asked for (both ends included).       *)
(***************************************************************************)
RandPeriod == 2
RandSteps == 1

None == <<>>
Some(v) == <<v>>

Min(S) == CHOOSE x \in S : \A y \in S : x <= y
Max(S) == CHOOSE x \in S : \A y \in S : x >= y

(***************************************************************************)
(* Strings.                                                                *)
(***************************************************************************)
CharAt(s, i) == SubSeq(s, i, i)

\* s[i:].startswith(p), 1-based i
StartsWithAt(s, p, i) ==
    /\ i >= 1
    /\ i + Len(p) - 1 <= Len(s)
    /\ SubSeq(s, i, i + Len(p) - 1) = p

\* Python's `p in s`
Contains(s, p) == \E i \in 1..(Len(s) - Len(p) + 1) : StartsWithAt(s, p, i)

\* Python's s.endswith(p)
EndsWith(s, p) == Len(s) >= Len(p) /\ SubSeq(s, Len(s) - Len(p) + 1, Len(s)) = p

UpperCase == "ABCDEFGHIJKLMNOPQRSTUVWXYZ"
LowerCase == "abcdefghijklmnopqrstuvwxyz"
Digits == "0123456789"

IsDigit(c) == \E i \in 1..10 : CharAt(Digits, i) = c
\* the class \w of the re module, on ASCII
IsWordChar(c) ==
    \/ IsDigit(c)
    \/ c = "_"
    \/ \E i \in 1..26 : CharAt(UpperCase, i) = c \/ CharAt(LowerCase, i) = c

LowerChar(c) ==
    IF \E i \in 1..26 : CharAt(UpperCase, i) = c
    THEN LET i == CHOOSE j \in 1..26 : CharAt(UpperCase, j) = c
         IN  CharAt(LowerCase, i)
    ELSE c

\* Python's str.lower()
RECURSIVE lower(_)
lower(s) == IF s = "" THEN "" ELSE LowerChar(Head(s)) \o lower(Tail(s))

\* Python's str.rstrip(c) for a single character c
RECURSIVE rstrip(_, _)
rstrip(s, c) ==
    IF s # "" /\ CharAt(s, Len(s)) = c THEN rstrip(SubSeq(s, 1, Len(s) - 1), c) ELSE s

DigitValue(c) == CHOOSE d \in 0..9 : CharAt(Digits, d + 1) = c
DigitChar(d) == CharAt(Digits, d + 1)

\* Python's int() on a run of decimal digits
RECURSIVE int(_)
int(s) ==
    IF s = "" THEN 0
    ELSE 10 * int(SubSeq(s, 1, Len(s) - 1)) + DigitValue(CharAt(s, Len(s)))

\* the format specification :02d, for 0 <= n < 100
Format02d(n) == DigitChar(n \div 10) \o DigitChar(n % 10)

\* the longest run of characters of one class that starts at position p
\* (the greedy \d+ and \w+), as the position of its last character; p - 1
\* when the character at p is not of the class
RECURSIVE DigitRunEnd(_, _)
DigitRunEnd(s, p) ==
    IF p <= Len(s) /\ IsDigit(CharAt(s, p)) THEN DigitRunEnd(s, p + 1) ELSE p - 1

RECURSIVE WordRunEnd(_, _)
WordRunEnd(s, p) ==
    IF p <= Len(s) /\ IsWordChar(CharAt(s, p)) THEN WordRunEnd(s, p + 1) ELSE p - 1

\* the `.` of the re module matches any character but a line break: the last
\* position a run of `.` that starts at p can reach (p - 1 when none)
RECURSIVE DotRunEnd(_, _)
DotRunEnd(s, p) ==
    IF p <= Len(s) /\ CharAt(s, p) # "\n" THEN DotRunEnd(s, p + 1) ELSE p - 1

(***************************************************************************)
(* Regular expressions.  The matchers below return the spans <<first,      *)
(* last>> of the groups of the match, and the empty tuple when there is    *)
(* no match; re_search cuts the groups out of the searched string.  A      *)
(* match object is the tuple of its groups (group(k) is the k-th element); *)
(* no match, Python's None, is the empty tuple.  Every pattern of the      *)
(* source has at least one group.                                          *)
(***************************************************************************)

\* The regex  (.+) SEP1 (.+) SEP2 ... (.+)  matched at position p, where
\* SEPk is an alternation of literals given in its order of preference.
\* A greedy group takes the longest text after which the rest still matches,
\* a lazy one (the first group only, `(.+?)`) the shortest.
RECURSIVE DotGroups(_, _, _, _)
DotGroups(s, p, seps, lazy) ==
    LET e == DotRunEnd(s, p)
    IN  IF seps = <<>>
        THEN IF e >= p THEN << << p, e >> >> ELSE <<>>
        ELSE LET Alt(q) == { k \in DOMAIN seps[1] :
                               /\ StartsWithAt(s, seps[1][k], q)
                               /\ DotGroups(s, q + Len(seps[1][k]), Tail(seps), FALSE) # <<>> }
                 cands == { q \in (p + 1)..(e + 1) : Alt(q) # {} }
             IN  IF cands = {} THEN <<>>
                 ELSE LET q == IF lazy THEN Min(cands) ELSE Max(cands)
                          k == Min(Alt(q))
                      IN  << << p, q - 1 >> >>
                            \o DotGroups(s, q + Len(seps[1][k]), Tail(seps), FALSE)

\* a literal head (one of `heads`, in order of preference) followed by
\* DotGroups, matched at position i
HeadGroupsAt(s, i, heads, seps) ==
    LET ok == { k \in DOMAIN heads :
                  /\ StartsWithAt(s, heads[k], i)
                  /\ DotGroups(s, i + Len(heads[k]), seps, FALSE) # <<>> }
    IN  IF ok = {} THEN <<>>
        ELSE DotGroups(s, i + Len(heads[Min(ok)]), seps, FALSE)

\* re.search: the match at the leftmost position that has one
HeadGroups(s, heads, seps) ==
    LET starts == { i \in 1..Len(s) : HeadGroupsAt(s, i, heads, seps) # <<>> }
    IN  IF starts = {} THEN <<>> ELSE HeadGroupsAt(s, Min(starts), heads, seps)

\* show me (?:the )?(top|bottom) (\d+) (.+?) by (.+)      matched at i
RankingAt(s, i) ==
    LET heads == << "show me the ", "show me " >>
        dirs  == << "top", "bottom" >>
        Try(h, d) ==
            LET p == i + Len(heads[h]) + Len(dirs[d]) + 1
                e == DigitRunEnd(s, p)
            IN  IF /\ StartsWithAt(s, heads[h] \o dirs[d] \o " ", i)
                   /\ e >= p
                   /\ StartsWithAt(s, " ", e + 1)
                   /\ DotGroups(s, e + 2, << << " by " >> >>, TRUE) # <<>>
                THEN << << i + Len(heads[h]), p - 2 >>, << p, e >> >>
                       \o DotGroups(s, e + 2, << << " by " >> >>, TRUE)
                ELSE <<>>
        ok == { hd \in (1..2) \X (1..2) : Try(hd[1], hd[2]) # <<>> }
    IN  IF ok = {} THEN <<>>
        ELSE LET hd == CHOOSE x \in ok :
                         \A y \in ok : x[1] < y[1] \/ (x[1] = y[1] /\ x[2] <= y[2])
             IN  Try(hd[1], hd[2])

RankingSearch(s) ==
    LET starts == { i \in 1..Len(s) : RankingAt(s, i) # <<>> }
    IN  IF starts = {} THEN <<>> ELSE RankingAt(s, Min(starts))

\* KEYWORD followed by a run of a class:  (SUM|AVG|COUNT)\((\w+)\),
\* LIMIT (\d+)  and  FROM (\w+)
AggregateAt(s, i) ==
    LET kws == << "SUM", "AVG", "COUNT" >>
        ok  == { k \in 1..3 :
                   LET p == i + Len(kws[k]) + 1
                   IN  /\ StartsWithAt(s, kws[k] \o "(", i)
                       /\ WordRunEnd(s, p) >= p
                       /\ StartsWithAt(s, ")", WordRunEnd(s, p) + 1) }
    IN  IF ok = {} THEN <<>>
        ELSE LET k == Min(ok)
                 p == i + Len(kws[k]) + 1
             IN  << << i, p - 2 >>, << p, WordRunEnd(s, p) >> >>

AggregateSearch(s) ==
    LET starts == { i \in 1..Len(s) : AggregateAt(s, i) # <<>> }
    IN  IF starts = {} THEN <<>> ELSE AggregateAt(s, Min(starts))

LimitSearch(s) ==
    LET starts == { i \in 1..Len(s) :
                      /\ StartsWithAt(s, "LIMIT ", i)
                      /\ DigitRunEnd(s, i + 6) >= i + 6 }
    IN  IF starts = {} THEN <<>>
        ELSE LET i == Min(starts) IN << << i + 6, DigitRunEnd(s, i + 6) >> >>

FromSearch(s) ==
    LET starts == { i \in 1..Len(s) :
                      /\ StartsWithAt(s, "FROM ", i)
                      /\ WordRunEnd(s, i + 5) >= i + 5 }
    IN  IF starts = {} THEN <<>>
        ELSE LET i == Min(starts) IN << << i + 5, WordRunEnd(s, i + 5) >> >>

\* re.findall(r'\d+', s): every maximal run of digits, left to right
RECURSIVE DigitRunsFrom(_, _)
DigitRunsFrom(s, p) ==
    IF p > Len(s) THEN <<>>
    ELSE IF IsDigit(CharAt(s, p))
         THEN << SubSeq(s, p, DigitRunEnd(s, p)) >> \o DigitRunsFrom(s, DigitRunEnd(s, p) + 1)
         ELSE DigitRunsFrom(s, p + 1)

re_findall_digits(s) == DigitRunsFrom(s, 1)

\* the regular expressions of the source, by their text
RE_RANKING     == "show me (?:the )?(top|bottom) (\\d+) (.+?) by (.+)"
RE_TEMPORAL    == "what (?:were|was) (?:the )?(.+) (?:last|this|past) (.+)"
RE_FILTER      == "list (.+) with (.+) (?:below|under|above|over|equals to?) (.+)"
RE_COUNT       == "how many (.+) (?:were|was) there (?:last|this|past) (.+)"
RE_COMPARISON  == "compare (.+) and (.+) by (.+)"
RE_AGGREGATION == "what is the average (.+) for (.+)"
RE_AGGREGATE   == "(SUM|AVG|COUNT)\\((\\w+)\\)"
RE_LIMIT       == "LIMIT (\\d+)"
RE_FROM        == "FROM (\\w+)"

\* the spans of the groups of the leftmost match of pattern in string
Spans(pattern, string) ==
    CASE pattern = RE_RANKING -> RankingSearch(string)
      [] pattern = RE_TEMPORAL ->
            HeadGroups(string,
                       << "what were the ", "what were ", "what was the ", "what was " >>,
                       << << " last ", " this ", " past " >> >>)
      [] pattern = RE_FILTER ->
            HeadGroups(string, << "list " >>,
                       << << " with " >>,
                          << " below ", " under ", " above ", " over ",
                             " equals to ", " equals t " >> >>)
      [] pattern = RE_COUNT ->
            HeadGroups(string, << "how many " >>,
                       << << " were there last ", " were there this ", " were there past ",
                             " was there last ", " was there this ", " was there past " >> >>)
      [] pattern = RE_COMPARISON ->
            HeadGroups(string, << "compare " >>, << << " and " >>, << " by " >> >>)
      [] pattern = RE_AGGREGATION ->
            HeadGroups(string, << "what is the average " >>, << << " for " >> >>)
      [] pattern = RE_AGGREGATE -> AggregateSearch(string)
      [] pattern = RE_LIMIT -> LimitSearch(string)
      [] pattern = RE_FROM -> FromSearch(string)

Cut(string, spans) == [k \in DOMAIN spans |-> SubSeq(string, spans[k][1], spans[k][2])]

\* re.search(pattern, string), case-sensitive
re_search(pattern, string) == Cut(string, Spans(pattern, string))

\* re.search(pattern, string, re.IGNORECASE): the patterns searched with this
\* flag are written in lower case, so a character of the string matches when
\* its lower-case form does; the groups are cut from the string itself
re_search_ignorecase(pattern, string) == Cut(string, Spans(pattern, lower(string)))

(***************************************************************************)
(* random: the draws of one request.  Draw(rnd, k) is the k-th draw of the *)
(* stream rnd, a point 0..RandSteps of the range the caller asks for.      *)
(***************************************************************************)
RandomStreams == [1..RandPeriod -> 0..RandSteps]

Draw(rnd, k) == rnd[((k - 1) % RandPeriod) + 1]

\* randint reaching one past its upper end
RandintPastEnd(a, b, d) == a + ((b + 1 - a) * d) \div RandSteps

\* random.randint(a, b): an integer of a..b, both ends included
randint(a, b, d) == a + ((b - a) * d) \div RandSteps

\* random.choice(seq)
choice(seq, d) == seq[1 + ((Len(seq) - 1) * d) \div RandSteps]

(***************************************************************************)
(* class QueryProcessor: the attributes __init__ assigns (lines 13-42).    *)
(* The requests are modelled on a processor that holds these attributes as *)
(* written.  A handler of self.patterns is kept by the name of the method  *)
(* the source writes; a name that is not among Methods raises              *)
(* AttributeError when a request reaches it.                               *)
(***************************************************************************)

\* the methods the class body defines (def ... at class level)
Methods ==
    { "__init__", "_initialize_mock_database", "_generate_mock_data",
      "process_query", "explain_query", "validate_query", "_translate_query",
      "_translate_ranking_query", "_translate_temporal_query",
      "_translate_filter_query", "_map_entity_to_table", "_map_attribute",
      "_map_timeframe", "_map_comparison", "_parse_value",
      "_execute_mock_query", "_generate_mock_records", "_generate_explanation" }

\* self.patterns: the (regex, handler) pairs in dispatch order; a handler is
\* the name of the method the pair refers to
patterns ==
    << [regex |-> RE_RANKING,     handler |-> "_translate_ranking_query"],
       [regex |-> RE_TEMPORAL,    handler |-> "_translate_temporal_query"],
       [regex |-> RE_FILTER,      handler |-> "_translate_filter_query"],
       [regex |-> RE_COUNT,       handler |-> "_translate_count_query"],
       [regex |-> RE_COMPARISON,  handler |-> "_translate_comparison_query"],
       [regex |-> RE_AGGREGATION, handler |-> "_translate_aggregation_query"] >>

\* self.schemas
schemas ==
    [ customers |-> << "id", "name", "email", "revenue", "region", "join_date" >>,
      products  |-> << "id", "name", "category", "price", "inventory", "supplier" >>,
      sales     |-> << "id", "product_id", "customer_id", "amount", "date", "region" >>,
      employees |-> << "id", "name", "department", "salary", "hire_date" >> ]

\* self.data_generators: the columns that have a generator, the number of
\* draws a generator consumes, and the value it returns from draws k, k+1, ...
GeneratorColumns ==
    { "name", "email", "revenue", "region", "date", "price", "inventory",
      "amount", "salary", "category" }

GeneratorDraws(col) == IF col = "date" THEN 2 ELSE 1

data_generators(col, rnd, k) ==
    CASE col = "name" ->
            choice(<< "John", "Jane", "Bob", "Alice", "Charlie", "Eve" >>, Draw(rnd, k))
      [] col = "email" ->
            choice(<< "john", "jane", "bob" >>, Draw(rnd, k)) \o "@example.com"
      [] col = "revenue" -> randint(1000, 100000, Draw(rnd, k))
      [] col = "region" ->
            choice(<< "North", "South", "East", "West" >>, Draw(rnd, k))
      [] col = "date" ->
            "2023-" \o Format02d(randint(1, 12, Draw(rnd, k)))
                    \o "-" \o Format02d(randint(1, 28, Draw(rnd, k + 1)))
      [] col = "price" -> randint(10, 1000, Draw(rnd, k))
      [] col = "inventory" -> randint(0, 500, Draw(rnd, k))
      [] col = "amount" -> randint(1, 100, Draw(rnd, k)) * 10
      [] col = "salary" -> randint(30000, 120000, Draw(rnd, k))
      [] col = "category" ->
            choice(<< "Electronics", "Clothing", "Food", "Furniture" >>, Draw(rnd, k))

(***************************************************************************)
(* The mappers.                                                            *)
(***************************************************************************)
_map_entity_to_table(entity) ==
    LET e == rstrip(lower(entity), "s")
    IN  IF Contains(e, "customer") THEN "customers"
        ELSE IF Contains(e, "product") THEN "products"
        ELSE IF Contains(e, "sale") THEN "sales"
        ELSE IF Contains(e, "employee") THEN "employees"
        ELSE "customers"

_map_attribute(attribute) ==
    LET a == lower(attribute)
    IN  IF Contains(a, "reven") THEN "revenue"
        ELSE IF Contains(a, "price") THEN "price"
        ELSE IF Contains(a, "invent") THEN "inventory"
        ELSE IF Contains(a, "amount") \/ Contains(a, "sale") THEN "amount"
        ELSE IF Contains(a, "salar") THEN "salary"
        ELSE "*"

_map_timeframe(timeframe) ==
    LET t == lower(timeframe)
    IN  IF Contains(t, "day") THEN "date = date('now', '-1 day')"
        ELSE IF Contains(t, "week") THEN "date >= date('now', '-7 day')"
        ELSE IF Contains(t, "month") THEN "date >= date('now', '-1 month')"
        ELSE IF Contains(t, "quarter") THEN "date >= date('now', '-3 month')"
        ELSE IF Contains(t, "year") THEN "date >= date('now', '-1 year')"
        ELSE "1=1"

_map_comparison(comparison) ==
    LET c == lower(comparison)
    IN  IF Contains(c, "below") \/ Contains(c, "under") THEN "<"
        ELSE IF Contains(c, "above") \/ Contains(c, "over") THEN ">"
        ELSE IF Contains(c, "equal") THEN "="
        ELSE "="

_parse_value(value_str) ==
    LET numbers == re_findall_digits(value_str)
    IN  IF numbers # <<>> THEN numbers[1] ELSE "0"

(***************************************************************************)
(* The translators.  A translator returns [raised, sql]: the pseudo-SQL it *)
(* builds, or the exception it raises.  Looking up an attribute the class  *)
(* does not define raises AttributeError.                                  *)
(***************************************************************************)
Returns(sql) == [raised |-> "", sql |-> sql]
Raises(exc) == [raised |-> exc, sql |-> ""]

\* _translate_ranking_query with the two orders swapped
TranslateRankingSwapped(match) ==
    LET order  == IF match[1] = "top" THEN "ASC" ELSE "DESC"
        table  == _map_entity_to_table(match[3])
        column == _map_attribute(match[4])
    IN  Returns("SELECT * FROM " \o table \o " ORDER BY " \o column \o " " \o order
                  \o " LIMIT " \o match[2])

_translate_ranking_query(match) ==
    LET direction == match[1]
        limit     == match[2]
        entity    == match[3]
        metric    == match[4]
        order     == IF direction = "top" THEN "DESC" ELSE "ASC"
        table     == _map_entity_to_table(entity)
        column    == _map_attribute(metric)
    IN  Returns("SELECT * FROM " \o table \o " ORDER BY " \o column \o " " \o order
                  \o " LIMIT " \o limit)

\* line 229 looks up self._map_metric_to_table, which the class does not
\* define (it is not among Methods): AttributeError is raised once
\* _map_timeframe has returned, and the lines that build the pseudo-SQL
\* (230-234) are never reached
_translate_temporal_query(match) ==
    LET metric         == match[1]
        timeframe      == match[2]
        time_condition == _map_timeframe(timeframe)
    IN  Raises("AttributeError")

_translate_filter_query(match) ==
    LET entity     == match[1]
        attribute  == match[2]
        comparison == match[3]
        table      == _map_entity_to_table(entity)
        column     == _map_attribute(attribute)
        operator   == _map_comparison(comparison)
    IN  Returns("SELECT * FROM " \o table \o " WHERE " \o column \o " " \o operator
                  \o " " \o _parse_value(comparison))

\* translator(match) for a handler of self.patterns
CallHandler(handler, match) ==
    IF handler \notin Methods THEN Raises("AttributeError")
    ELSE CASE handler = "_translate_ranking_query" -> _translate_ranking_query(match)
           [] handler = "_translate_temporal_query" -> _translate_temporal_query(match)
           [] handler = "_translate_filter_query" -> _translate_filter_query(match)

\* the patterns of self.patterns that match the text, as their positions
Matching(natural_query) ==
    { i \in DOMAIN patterns : re_search_ignorecase(patterns[i].regex, natural_query) # <<>> }

\* _translate_query with the patterns searched from the last to the first
TranslateQueryLastMatch(natural_query) ==
    LET text  == lower(natural_query)
        found == Matching(text)
    IN  IF found # {}
        THEN LET i == Max(found)
                 r == CallHandler(patterns[i].handler,
                                  re_search_ignorecase(patterns[i].regex, text))
             IN  [raised |-> r.raised, sql |-> r.sql, tried |-> i,
                  handler |-> patterns[i].handler]
        ELSE [raised |-> "",
              sql |-> "SELECT * FROM data WHERE query='" \o text \o "' LIMIT 10",
              tried |-> Len(patterns), handler |-> ""]

\* _translate_query returns [raised, sql] and, as a record of the path taken,
\* tried (how many patterns it searched) and handler (the handler it called,
\* "" when it called none)
_translate_query(natural_query) ==
    LET text  == lower(natural_query)
        found == Matching(text)
    IN  IF found # {}
        THEN LET i == Min(found)
                 r == CallHandler(patterns[i].handler,
                                  re_search_ignorecase(patterns[i].regex, text))
             IN  [raised |-> r.raised, sql |-> r.sql, tried |-> i,
                  handler |-> patterns[i].handler]
        ELSE [raised |-> "",
              sql |-> "SELECT * FROM data WHERE query='" \o text \o "' LIMIT 10",
              tried |-> Len(patterns), handler |-> ""]

(***************************************************************************)
(* The executor and the record synthesizer.  A mock record (a dict) is the *)
(* tuple of its <<field, value>> pairs in insertion order.                 *)
(***************************************************************************)

\* the value of one column of a mock record (lines 352-359) and the number
\* of draws it consumes
ColumnDraws(col) ==
    IF EndsWith(col, "_id") THEN 1
    ELSE IF col \in GeneratorColumns THEN GeneratorDraws(col)
    ELSE IF col = "id" THEN 1
    ELSE 0

\* ColumnValue with the keys of the "_id" columns drawn from 0..50
ColumnValueFromZero(col, rnd, k) ==
    IF EndsWith(col, "_id") THEN randint(0, 50, Draw(rnd, k))
    ELSE IF col \in GeneratorColumns THEN data_generators(col, rnd, k)
    ELSE IF col = "id" THEN randint(1, 1000, Draw(rnd, k))
    ELSE ""

ColumnValue(col, rnd, k) ==
    IF EndsWith(col, "_id") THEN randint(1, 50, Draw(rnd, k))
    ELSE IF col \in GeneratorColumns THEN data_generators(col, rnd, k)
    ELSE IF col = "id" THEN randint(1, 1000, Draw(rnd, k))
    ELSE ""

\* the inner loop `for col in columns`, from column j on, next draw k
RECURSIVE MockRecord(_, _, _, _)
MockRecord(columns, j, rnd, k) ==
    IF j > Len(columns) THEN <<>>
    ELSE << << columns[j], ColumnValue(columns[j], rnd, k) >> >>
           \o MockRecord(columns, j + 1, rnd, k + ColumnDraws(columns[j]))

RECURSIVE RecordDraws(_, _)
RecordDraws(columns, j) ==
    IF j > Len(columns) THEN 0 ELSE ColumnDraws(columns[j]) + RecordDraws(columns, j + 1)

\* _generate_mock_records(table, count), the first draw being draw k:
\* [raised, records]; self.schemas[table] raises KeyError for a table the
\* registry does not hold
_generate_mock_records(table, count, rnd, k) ==
    IF table \notin DOMAIN schemas
    THEN [raised |-> "KeyError", records |-> <<>>]
    ELSE LET columns == schemas[table]
             n       == RecordDraws(columns, 1)
         IN  [raised  |-> "",
              records |-> [r \in 1..count |->
                             MockRecord(columns, 1, rnd, k + (r - 1) * n)]]

\* _execute_mock_query returns [raised, result] and, as a record of the path
\* taken, branch: the return statement that was reached
Executed(branch, g) == [raised |-> g.raised, result |-> g.records, branch |-> branch]

\* table = re.search(r'FROM (\w+)', pseudo_sql).group(1), then the records:
\* .group on None raises AttributeError
RecordsFrom(branch, pseudo_sql, count, rnd, k) ==
    LET m == re_search(RE_FROM, pseudo_sql)
    IN  IF m = None
        THEN [raised |-> "AttributeError", result |-> <<>>, branch |-> branch]
        ELSE Executed(branch, _generate_mock_records(m[1], count, rnd, k))

\* _execute_mock_query with the row count of the filter branch used in the
\* ranking branch too
ExecuteRandomRanking(pseudo_sql, rnd) ==
    IF Contains(pseudo_sql, "SELECT")
    THEN IF \/ Contains(pseudo_sql, "SUM")
            \/ Contains(pseudo_sql, "AVG")
            \/ Contains(pseudo_sql, "COUNT")
         THEN LET metric == re_search(RE_AGGREGATE, pseudo_sql)
              IN  IF metric # None
                  THEN [raised |-> "",
                        result |-> << << << lower(metric[1]) \o "(" \o metric[2] \o ")",
                                            randint(1000, 100000, Draw(rnd, 1)) >> >> >>,
                        branch |-> "aggregate"]
                  ELSE RecordsFrom("default", pseudo_sql, 5, rnd, 1)
         ELSE IF Contains(pseudo_sql, "ORDER BY")
         THEN RecordsFrom("ranking", pseudo_sql, randint(1, 10, Draw(rnd, 1)), rnd, 2)
         ELSE IF Contains(pseudo_sql, "WHERE")
         THEN RecordsFrom("filter", pseudo_sql, randint(1, 10, Draw(rnd, 1)), rnd, 2)
         ELSE RecordsFrom("default", pseudo_sql, 5, rnd, 1)
    ELSE [raised |-> "",
          result |-> << << << "result", "Mock data for query" >>,
                           << "query", pseudo_sql >> >> >>,
          branch |-> "fallback"]

_execute_mock_query(pseudo_sql, rnd) ==
    IF Contains(pseudo_sql, "SELECT")
    THEN IF \/ Contains(pseudo_sql, "SUM")
            \/ Contains(pseudo_sql, "AVG")
            \/ Contains(pseudo_sql, "COUNT")
         THEN LET metric == re_search(RE_AGGREGATE, pseudo_sql)
              IN  IF metric # None
                  THEN [raised |-> "",
                        result |-> << << << lower(metric[1]) \o "(" \o metric[2] \o ")",
                                            randint(1000, 100000, Draw(rnd, 1)) >> >> >>,
                        branch |-> "aggregate"]
                  ELSE RecordsFrom("default", pseudo_sql, 5, rnd, 1)
         ELSE IF Contains(pseudo_sql, "ORDER BY")
         THEN LET limit_match == re_search(RE_LIMIT, pseudo_sql)
                  limit == IF limit_match # None THEN int(limit_match[1]) ELSE 10
              IN  RecordsFrom("ranking", pseudo_sql, limit, rnd, 1)
         ELSE IF Contains(pseudo_sql, "WHERE")
         THEN RecordsFrom("filter", pseudo_sql, randint(1, 10, Draw(rnd, 1)), rnd, 2)
         ELSE RecordsFrom("default", pseudo_sql, 5, rnd, 1)
    ELSE [raised |-> "",
          result |-> << << << "result", "Mock data for query" >>,
                           << "query", pseudo_sql >> >> >>,
          branch |-> "fallback"]

(***************************************************************************)
(* The three operations.  Each returns [raised, dict, path]: the exception *)
(* that left the method ("" when it returned), the dict it returned, and   *)
(* the path it took: the number of patterns tried, the handler called, the *)
(* pseudo-SQL built and the return statement the executor reached.         *)
(* execution_time, a wall-clock difference, is not part of the model.      *)
(***************************************************************************)
NoPath == [tried |-> 0, handler |-> "", sql |-> "", branch |-> ""]
NoDict == [original_query |-> ""]

process_query(natural_query, rnd) ==
    LET t == _translate_query(natural_query)
        e == _execute_mock_query(t.sql, rnd)
    IN  IF t.raised # ""
        THEN [raised |-> t.raised, dict |-> NoDict,
              path |-> [tried |-> t.tried, handler |-> t.handler, sql |-> "",
                        branch |-> ""]]
        ELSE IF e.raised # ""
        THEN [raised |-> e.raised, dict |-> NoDict,
              path |-> [tried |-> t.tried, handler |-> t.handler, sql |-> t.sql,
                        branch |-> e.branch]]
        ELSE [raised |-> "",
              dict |-> [original_query |-> natural_query,
                        translated_query |-> t.sql,
                        result |-> e.result],
              path |-> [tried |-> t.tried, handler |-> t.handler, sql |-> t.sql,
                        branch |-> e.branch]]

ExplanationSteps ==
    << "Received natural language query",
       "Identified query type based on patterns",
       "Extracted key entities and attributes",
       "Mapped natural language terms to database schema",
       "Constructed structured query" >>

_generate_explanation(natural_query, translated_query) ==
    [summary |-> "The query '" \o natural_query
                   \o "' was interpreted as a request for structured data. "
                   \o "The system identified relevant data entities and translated it to: "
                   \o translated_query,
     steps |-> ExplanationSteps]

explain_query(natural_query) ==
    LET t == _translate_query(natural_query)
        explanation == _generate_explanation(natural_query, t.sql)
    IN  IF t.raised # ""
        THEN [raised |-> t.raised, dict |-> NoDict,
              path |-> [tried |-> t.tried, handler |-> t.handler, sql |-> "",
                        branch |-> ""]]
        ELSE [raised |-> "",
              dict |-> [original_query |-> natural_query,
                        explanation |-> explanation.summary,
                        steps |-> explanation.steps],
              path |-> [tried |-> t.tried, handler |-> t.handler, sql |-> t.sql,
                        branch |-> ""]]

\* the three checks of validate_query
PatternMatched(natural_query) == Matching(natural_query) # {}

EntitiesFound(natural_query) ==
    \E entity \in DOMAIN schemas : Contains(lower(natural_query), entity)

measurable_attrs == << "revenue", "price", "inventory", "amount", "salary" >>

AttrFound(natural_query) ==
    \E i \in DOMAIN measurable_attrs : Contains(lower(natural_query), measurable_attrs[i])

REASON_PATTERN == "Query doesn't match any known patterns"
REASON_ENTITY == "No known data entities (customers, products, sales, etc.) detected in query"
REASON_ATTR == "No measurable attributes detected in query"
SUGGEST_PATTERN == "Try using more structured queries like 'Show top X by Y' or 'List A with B under C'"
SUGGEST_ENTITY == "Try mentioning specific data entities like 'customers', 'products', or 'sales'"
SUGGEST_ATTR == "Try including measurable attributes like 'revenue', 'price', or 'inventory'"

\* validate_query returning the suggestions list whether valid or not
ValidateAlwaysSuggests(natural_query) ==
    LET matched        == PatternMatched(natural_query)
        entities_found == EntitiesFound(natural_query)
        attr_found     == AttrFound(natural_query)
        is_valid       == matched /\ entities_found /\ attr_found
        reasons        == (IF matched THEN <<>> ELSE << REASON_PATTERN >>)
                            \o (IF entities_found THEN <<>> ELSE << REASON_ENTITY >>)
                            \o (IF attr_found THEN <<>> ELSE << REASON_ATTR >>)
        suggestions    == (IF matched THEN <<>> ELSE << SUGGEST_PATTERN >>)
                            \o (IF entities_found THEN <<>> ELSE << SUGGEST_ENTITY >>)
                            \o (IF attr_found THEN <<>> ELSE << SUGGEST_ATTR >>)
    IN  [raised |-> "",
         dict |-> [original_query |-> natural_query,
                   is_valid |-> is_valid,
                   reasons |-> reasons,
                   suggestions |-> Some(suggestions)],
         path |-> NoPath]

validate_query(natural_query) ==
    LET matched        == PatternMatched(natural_query)
        entities_found == EntitiesFound(natural_query)
        attr_found     == AttrFound(natural_query)
        is_valid       == matched /\ entities_found /\ attr_found
        reasons        == (IF matched THEN <<>> ELSE << REASON_PATTERN >>)
                            \o (IF entities_found THEN <<>> ELSE << REASON_ENTITY >>)
                            \o (IF attr_found THEN <<>> ELSE << REASON_ATTR >>)
        suggestions    == (IF matched THEN <<>> ELSE << SUGGEST_PATTERN >>)
                            \o (IF entities_found THEN <<>> ELSE << SUGGEST_ENTITY >>)
                            \o (IF attr_found THEN <<>> ELSE << SUGGEST_ATTR >>)
    IN  [raised |-> "",
         dict |-> [original_query |-> natural_query,
                   is_valid |-> is_valid,
                   reasons |-> reasons,
                   suggestions |-> IF ~is_valid THEN Some(suggestions) ELSE None],
         path |-> NoPath]

(***************************************************************************)
(* The request texts.  The texts of a pattern category are built from the  *)
(* parts of its phrasing, so that a property can name the parts a text was *)
(* built from.                                                             *)
(***************************************************************************)

\* show me [the] top|bottom N <entity> by <metric>
RankingParts ==
    { << "the ", "top" >>, << "", "bottom" >> }
      \X { "0", "3", "12" }
      \X { << "customers", "revenue" >>, << "employees", "total salary" >>,
           << "product", "price" >>, << "items", "rating" >>,
           << "customers", "salary" >> }

RankingText(the, direction, n, entity, metric) ==
    "show me " \o the \o direction \o " " \o n \o " " \o entity \o " by " \o metric

RankingInputs ==
    { RankingText(p[1][1], p[1][2], p[2], p[3][1], p[3][2]) : p \in RankingParts }

\* list <entity> with <attribute> <cmp> <value>
ComparisonWords == { "below", "under", "above", "over", "equals to", "equals t" }

FilterParts ==
    ({ << "products", "inventory" >> } \X ComparisonWords
        \X { "100 units", "none", "5 or over" })
      \cup ({ << "employees", "salary" >> } \X { "above", "equals to" } \X { "40000" })

FilterText(entity, attribute, cmp, value) ==
    "list " \o entity \o " with " \o attribute \o " " \o cmp \o " " \o value

FilterInputs == { FilterText(p[1][1], p[1][2], p[2], p[3]) : p \in FilterParts }

\* the canonical phrasing of each category, one text and more
CanonicalInputs ==
    [ ranking     |-> { "show me the top 5 customers by revenue",
                        "Show Me The TOP 2 Products By Price",
                        "show me top 2 sales by amount\nplease" },
      temporal    |-> { "what were the sales last quarter",
                        "what was revenue this year",
                        "What were the prices past week",
                        "what was the last day",
                        "what was the sales amount last month" },
      filter      |-> { "list products with inventory below 100 units",
                        "List Customers With Revenue Over 5000" },
      count       |-> { "how many sales were there last month",
                        "how many customers was there this year" },
      comparison  |-> { "compare customers and products by revenue" },
      aggregation |-> { "what is the average price for products",
                        "what is the average salary for employees" } ]

\* texts that match two patterns or more
OverlapInputs ==
    { "compare top and show me top 3 customers by revenue",
      "what is the average price for what was sold last year",
      "how many list sales with amount over 3 were there last year",
      "compare how many products and sales were there last year by day",
      "what is the average price for list products with price under 5",
      "show me top 4 stand by employees by salary" }

\* texts that match no pattern
UnmatchedInputs ==
    { "", "foobar", "customers revenue", "show data from sales limit 5",
      "list products with inventory equals 100", "SELECT COUNT(id) FROM sales",
      "what's the revenue of our customers" }

Categories == << "ranking", "temporal", "filter", "count", "comparison", "aggregation" >>

Inputs ==
    RankingInputs \cup FilterInputs \cup OverlapInputs \cup UnmatchedInputs
      \cup UNION { CanonicalInputs[c] : c \in DOMAIN CanonicalInputs }

(***************************************************************************)
(* The calls a request can make and what they return: for each operation   *)
(* the set of its <<text, result>> pairs over the request texts (and, for  *)
(* process_query, over the random streams).                                *)
(***************************************************************************)
Processed == { << t, process_query(t, rnd) >> : t \in Inputs, rnd \in RandomStreams }
Explained == { << t, explain_query(t) >> : t \in Inputs }
Validated == { << t, validate_query(t) >> : t \in Inputs }

(***************************************************************************)
(* The service (main.py): the module-level query_processor answers the     *)
(* requests of an authenticated user, one at a time.  An endpoint returns  *)
(* the dict of the processor with status 200, and turns any exception of   *)
(* the processor into a response of status 400.                            *)
(*   op        the operation that handled the last request ("" at start)   *)
(*   request   the text of the last request                                *)
(*   response  the response to it: [status, raised, body]                  *)
(*   path      the path the processor took for it                          *)
(*   previous  when the last two requests were /query of the same text:    *)
(*             the outcome of the first of them (its exception, its number *)
(*             of rows and the field names of its rows), otherwise None    *)
(*   invocation  the last direct call of a method of the processor:        *)
(*             [method, args, ret], NoCall when there was none             *)
(*   db        the connection conn: the number of rows of each of the four *)
(*             tables (0 also for a table that is not created yet, which   *)
(*             lines 48-90 create empty)                                   *)
(*   construction  the outcome of the last QueryProcessor(conn), see below *)
(***************************************************************************)
VARIABLES op, request, response, path, previous, invocation, db, construction

vars == << op, request, response, path, previous, invocation, db, construction >>

\* for table in ["customers", "products", "sales", "employees"] (line 93)
TableNames == << "customers", "products", "sales", "employees" >>

\* sqlite3.connect(':memory:'): no table holds a row
EmptyTables == [i \in DOMAIN TableNames |-> 0]

\* no construction yet.  done: a construction was attempted; raised: its
\* exception; line: the line that raised; attrs: the attributes the instance
\* holds when __init__ ends; before: the rows of the tables when the first
\* construction on the connection began
NoConstruction ==
    [done |-> FALSE, raised |-> "", line |-> 0, attrs |-> {}, before |-> EmptyTables]

NoCall == [method |-> "", args |-> <<>>, ret |-> [raised |-> ""]]

\* try: return result / except Exception as e: raise HTTPException(400, str(e))
Respond(r) ==
    IF r.raised = ""
    THEN [status |-> 200, raised |-> "", body |-> r.dict]
    ELSE [status |-> 400, raised |-> r.raised, body |-> [detail |-> r.raised]]

\* the field names of a mock record, in order
FieldNames(record) == [j \in DOMAIN record |-> record[j][1]]

\* the rows of a response to /query (none when the request failed)
Rows(resp) == IF resp.status = 200 THEN resp.body.result ELSE <<>>

\* what two runs are compared on: the exception, the number of rows, the
\* shapes of the rows, the return statement of the executor
Outcome(resp, p) ==
    [ raised |-> resp.raised,
      rows   |-> Len(Rows(resp)),
      shapes |-> { FieldNames(Rows(resp)[r]) : r \in DOMAIN Rows(resp) },
      branch |-> p.branch ]

Init ==
    /\ op = ""
    /\ request = ""
    /\ response = [status |-> 0, raised |-> "", body |-> NoDict]
    /\ path = NoPath
    /\ previous = None
    /\ invocation = NoCall
    /\ db = EmptyTables
    /\ construction = NoConstruction

\* POST /query
Query ==
    \E call \in Processed :
        /\ op' = "process_query"
        /\ request' = call[1]
        /\ response' = Respond(call[2])
        /\ path' = call[2].path
        /\ previous' = IF op = "process_query" /\ request = call[1]
                       THEN Some(Outcome(response, path))
                       ELSE None
        /\ UNCHANGED << invocation, db, construction >>

\* POST /explain
Explain ==
    \E call \in Explained :
        /\ op' = "explain_query"
        /\ request' = call[1]
        /\ response' = Respond(call[2])
        /\ path' = call[2].path
        /\ previous' = None
        /\ UNCHANGED << invocation, db, construction >>

\* POST /validate
Validate ==
    \E call \in Validated :
        /\ op' = "validate_query"
        /\ request' = call[1]
        /\ response' = Respond(call[2])
        /\ path' = call[2].path
        /\ previous' = None
        /\ UNCHANGED << invocation, db, construction >>

Next == Query \/ Explain \/ Validate

Spec == Init /\ [][Next]_vars

(***************************************************************************)
(* The executor and the record synthesizer called directly, on arguments   *)
(* of bounded sets: the pseudo-SQL texts below (the aggregate queries have *)
(* the form _translate_temporal_query writes, lines 232-233) and every     *)
(* table of the registry with a row count of 0..MaxCount.                  *)
(***************************************************************************)
Aggregates == << "SUM", "AVG", "COUNT" >>

\* <<column, table>> pairs
AggregateColumns ==
    { << "amount", "sales" >>, << "id", "sales" >>, << "revenue", "customers" >>,
      << "price", "products" >>, << "salary", "employees" >> }

AggregateConditions ==
    { "", " WHERE 1=1", " WHERE " \o _map_timeframe("quarter") }

AggregateParts == (DOMAIN Aggregates) \X AggregateColumns \X AggregateConditions

AggregateText(p) ==
    "SELECT " \o Aggregates[p[1]] \o "(" \o p[2][1] \o ") FROM " \o p[2][2] \o p[3]

AggregateQueries == { AggregateText(p) : p \in AggregateParts }

\* pseudo-SQL texts that are not an aggregate over a column
OtherQueries ==
    { "SELECT COUNT(*) FROM sales",
      "SELECT * FROM customers ORDER BY revenue DESC LIMIT 2",
      "SELECT * FROM products WHERE price < 5",
      "SELECT name FROM employees",
      "SELECT * FROM data WHERE query='foobar' LIMIT 10",
      "show data" }

PseudoSQLs == AggregateQueries \cup OtherQueries

ExecutedQueries ==
    { << sql, _execute_mock_query(sql, rnd) >> : sql \in PseudoSQLs, rnd \in RandomStreams }

\* self._execute_mock_query(pseudo_sql)
Execute ==
    \E c \in ExecutedQueries :
        /\ invocation' = [method |-> "_execute_mock_query", args |-> << c[1] >>,
                          ret |-> c[2]]
        /\ UNCHANGED << op, request, response, path, previous, db, construction >>

\* the largest row count _generate_mock_records is called with
MaxCount == 3

\* the tables it is called with: those of the registry and one it lacks
RecordTables == (DOMAIN schemas) \cup { "data" }

GeneratedRecords ==
    { << table, n, _generate_mock_records(table, n, rnd, 1) >> :
          table \in RecordTables, n \in 0..MaxCount, rnd \in RandomStreams }

\* self._generate_mock_records(table, count)
Generate ==
    \E c \in GeneratedRecords :
        /\ invocation' = [method |-> "_generate_mock_records",
                          args |-> << c[1], c[2] >>, ret |-> c[3]]
        /\ UNCHANGED << op, request, response, path, previous, db, construction >>

MethodsNext == Execute \/ Generate

SpecMethods == Init /\ [][MethodsNext]_vars

(***************************************************************************)
(* Construction: QueryProcessor(conn), as main.py line 40 calls it, on a   *)
(* connection whose tables hold 0..MaxRows rows each (a fresh connection   *)
(* holds none).  attrs is the set of the attributes assigned to self so    *)
(* far; reading an attribute that is neither assigned nor a method of the  *)
(* class raises AttributeError.                                            *)
(***************************************************************************)

\* the most rows a table holds before the first construction
MaxRows == 2

\* self._generate_mock_data(table, 50) (line 96)
MockRows == 50

\* _generate_mock_data(table_name, count) on the tables rows: line 103 reads
\* self.schemas, line 110 self.data_generators (every table has a column
\* that reaches it); then count rows are inserted
_generate_mock_data(rows, attrs, i, count) ==
    IF "schemas" \notin attrs
    THEN [raised |-> "AttributeError", line |-> 103, rows |-> rows]
    ELSE IF count > 0 /\ "data_generators" \notin attrs
    THEN [raised |-> "AttributeError", line |-> 110, rows |-> rows]
    ELSE [raised |-> "", line |-> 0, rows |-> [rows EXCEPT ![i] = @ + count]]

\* the loop of lines 93-96, from table i on
RECURSIVE FillEmptyTables(_, _, _)
FillEmptyTables(rows, attrs, i) ==
    IF i > Len(TableNames) THEN [raised |-> "", line |-> 0, rows |-> rows]
    ELSE IF rows[i] = 0
    THEN LET g == _generate_mock_data(rows, attrs, i, MockRows)
         IN  IF g.raised # "" THEN g ELSE FillEmptyTables(g.rows, attrs, i + 1)
    ELSE FillEmptyTables(rows, attrs, i + 1)

\* _initialize_mock_database: the tables are created if they do not exist,
\* the empty ones are filled, the connection commits
_initialize_mock_database(rows, attrs) == FillEmptyTables(rows, attrs, 1)

\* the first entry of the pattern list whose handler is not a method of the
\* class (0 when every handler is one); entry i is written on line 13 + i
MissingHandler ==
    LET missing == { i \in DOMAIN patterns : patterns[i].handler \notin Methods }
    IN  IF missing = {} THEN 0 ELSE Min(missing)

\* QueryProcessor.__init__(db_connection) on the tables rows:
\* [raised, line, attrs, rows]
QueryProcessor(rows) ==
    LET d == _initialize_mock_database(rows, { "conn" })
    IN  IF d.raised # ""
        THEN [raised |-> d.raised, line |-> d.line, attrs |-> { "conn" },
              rows |-> d.rows]
        ELSE IF MissingHandler # 0
        THEN [raised |-> "AttributeError", line |-> 13 + MissingHandler,
              attrs |-> { "conn" }, rows |-> d.rows]
        ELSE [raised |-> "", line |-> 0,
              attrs |-> { "conn", "patterns", "schemas", "data_generators" },
              rows |-> d.rows]

ConstructionInit ==
    /\ op = ""
    /\ request = ""
    /\ response = [status |-> 0, raised |-> "", body |-> NoDict]
    /\ path = NoPath
    /\ previous = None
    /\ invocation = NoCall
    /\ db \in [DOMAIN TableNames -> 0..MaxRows]
    /\ construction = NoConstruction

\* query_processor = QueryProcessor(conn)
Construct ==
    LET c == QueryProcessor(db)
    IN  /\ db' = c.rows
        /\ construction' = [done |-> TRUE, raised |-> c.raised, line |-> c.line,
                            attrs |-> c.attrs,
                            before |-> IF construction.done
                                       THEN construction.before ELSE db]
        /\ UNCHANGED << op, request, response, path, previous, invocation >>

ConstructionNext == Construct

SpecConstruction == ConstructionInit /\ [][ConstructionNext]_vars

(***************************************************************************)
(* Properties.                                                             *)
(***************************************************************************)
Translating == op \in { "process_query", "explain_query" }

\* the dispatch order the specification fixes: ranking, temporal, filter,
\* count, comparison, aggregation
DispatchOrder ==
    << << RE_RANKING,     "_translate_ranking_query" >>,
       << RE_TEMPORAL,    "_translate_temporal_query" >>,
       << RE_FILTER,      "_translate_filter_query" >>,
       << RE_COUNT,       "_translate_count_query" >>,
       << RE_COMPARISON,  "_translate_comparison_query" >>,
       << RE_AGGREGATION, "_translate_aggregation_query" >> >>

\* the patterns of DispatchOrder the text matches
Hits(text) ==
    { i \in DOMAIN DispatchOrder : re_search_ignorecase(DispatchOrder[i][1], text) # <<>> }

\* C1: process_query completes without raising for every text and returns at
\* least one row; a text that matches no pattern is resolved to the fallback
\* query (limit 10) and still produces rows.
C1_AlwaysRows ==
    op = "process_query" =>
        /\ response.status = 200
        /\ Len(Rows(response)) >= 1
        /\ Hits(request) = {} =>
             path.sql = "SELECT * FROM data WHERE query='" \o lower(request) \o "' LIMIT 10"

\* C2: the patterns are tried in the fixed order and the handler called is
\* that of the first pattern that matches; no handler of a later pattern is
\* called, and none at all when no pattern matches.
C2_FirstMatchWins ==
    Translating =>
        LET hits == Hits(request)
        IN  IF hits = {}
            THEN path.handler = "" /\ path.tried = Len(DispatchOrder)
            ELSE \A i \in hits :
                    (\A j \in hits : i <= j) =>
                        /\ path.handler = DispatchOrder[i][2]
                        /\ path.tried = i

\* a text that matches two patterns or more was translated by the earlier one
C2_Witness ==
    /\ op = "process_query"
    /\ Cardinality(Hits(request)) >= 2
    /\ path.handler = DispatchOrder[Min(Hits(request))][2]
    /\ path.handler # DispatchOrder[Max(Hits(request))][2]

\* C3: a text in the canonical phrasing of a category is dispatched to the
\* translator of that category, which returns a structured query without
\* error: a count-aggregate for count, an average-aggregate for aggregation,
\* a query with both sides for comparison.
C3_CanonicalDispatch ==
    \A i \in DOMAIN Categories :
        (Translating /\ request \in CanonicalInputs[Categories[i]]) =>
            /\ path.handler = DispatchOrder[i][2]
            /\ response.raised = ""
            /\ path.sql # ""
            /\ Categories[i] = "count" => Contains(path.sql, "COUNT(")
            /\ Categories[i] = "aggregation" => Contains(path.sql, "AVG(")

\* the operator the comparison word of a filter text names
OperatorOf(cmp) ==
    IF cmp \in { "below", "under" } THEN "<"
    ELSE IF cmp \in { "above", "over" } THEN ">"
    ELSE "="

\* C4: a filter text 'list <entity> with <attribute> <cmp> <value>' is
\* translated to a query on the mapped table and column whose operator is the
\* one the comparison word names and whose literal is the first run of digits
\* of the value phrase (0 when there is none).
C4_FilterOperator ==
    \A p \in FilterParts :
        (Translating /\ request = FilterText(p[1][1], p[1][2], p[2], p[3])) =>
            path.sql = "SELECT * FROM " \o _map_entity_to_table(p[1][1])
                         \o " WHERE " \o _map_attribute(p[1][2])
                         \o " " \o OperatorOf(p[2])
                         \o " " \o _parse_value(p[3])

\* C5: 'what were the sales last quarter' goes to the temporal translator,
\* which builds a sum-aggregate over amount with a 3-month time predicate;
\* executing it returns exactly one row with exactly one field, named after
\* the aggregate.
C5_SalesLastQuarter ==
    (op = "process_query" /\ request = "what were the sales last quarter") =>
        /\ path.handler = "_translate_temporal_query"
        /\ response.status = 200
        /\ Contains(path.sql, "SELECT SUM(amount) FROM ")
        /\ Contains(path.sql, "WHERE date >= date('now', '-3 month')")
        /\ Len(Rows(response)) = 1
        /\ FieldNames(Rows(response)[1]) = << "sum(amount)" >>

\* C6: a ranking text 'show me [the] top|bottom N <entity> by <metric>' is
\* translated to a query on the mapped table, ordered by the mapped metric,
\* descending for top and ascending for bottom, with limit N; process_query
\* returns exactly N rows, each with every column of the table's schema.
C6_RankingRows ==
    \A p \in RankingParts :
        (op = "process_query"
           /\ request = RankingText(p[1][1], p[1][2], p[2], p[3][1], p[3][2])) =>
            LET table == _map_entity_to_table(p[3][1])
            IN  /\ path.handler = "_translate_ranking_query"
                /\ path.sql = "SELECT * FROM " \o table
                                \o " ORDER BY " \o _map_attribute(p[3][2])
                                \o (IF p[1][2] = "top" THEN " DESC" ELSE " ASC")
                                \o " LIMIT " \o p[2]
                /\ response.status = 200
                /\ Len(Rows(response)) = int(p[2])
                /\ \A r \in DOMAIN Rows(response) :
                       FieldNames(Rows(response)[r]) = schemas[table]

\* a 'bottom' ranking of 12 rows has been returned
C6_Witness ==
    /\ op = "process_query"
    /\ request = RankingText("", "bottom", "12", "employees", "total salary")
    /\ path.sql = "SELECT * FROM employees ORDER BY salary ASC LIMIT 12"
    /\ Len(Rows(response)) = 12

\* C7: validate_query runs its three checks without short-circuiting:
\* is_valid is true exactly when all three pass, reasons holds one entry per
\* failing check in check order, suggestions is None when valid and holds as
\* many entries as reasons otherwise; 'foobar' gets 3 reasons and 3
\* suggestions, 'show me the top 5 customers by revenue' is valid.
C7_ValidateChecks ==
    op = "validate_query" =>
        LET a == Hits(request) # {}
            b == \E kw \in { "customers", "products", "sales", "employees" } :
                     Contains(lower(request), kw)
            c == \E kw \in { "revenue", "price", "inventory", "amount", "salary" } :
                     Contains(lower(request), kw)
            all == << << a, REASON_PATTERN >>, << b, REASON_ENTITY >>, << c, REASON_ATTR >> >>
            IsFailing(x) == ~x[1]
            failing == SelectSeq(all, IsFailing)
            v == response.body
        IN  /\ response.status = 200
            /\ v.is_valid = (a /\ b /\ c)
            /\ v.reasons = [k \in DOMAIN failing |-> failing[k][2]]
            /\ v.is_valid => v.suggestions = None
            /\ ~v.is_valid => /\ v.suggestions # None
                              /\ Len(v.suggestions[1]) = Len(v.reasons)
            /\ request = "foobar" =>
                 /\ ~v.is_valid
                 /\ Len(v.reasons) = 3
                 /\ v.suggestions # None
                 /\ Len(v.suggestions[1]) = 3
            /\ request = "show me the top 5 customers by revenue" =>
                 /\ v.is_valid
                 /\ v.reasons = <<>>
                 /\ v.suggestions = None

\* a text that fails exactly the second and the third check has been validated
C7_Witness ==
    /\ op = "validate_query"
    /\ Hits(request) # {}
    /\ ~response.body.is_valid
    /\ response.body.reasons = << REASON_ENTITY, REASON_ATTR >>
    /\ Len(response.body.suggestions[1]) = 2

\* C8 as stated: two runs of process_query on the same text return the same
\* number of rows and rows of the same shape.
C8_SameCountAndShape ==
    previous # None =>
        LET first  == previous[1]
            second == Outcome(response, path)
        IN  (first.raised = "" /\ second.raised = "") =>
                /\ first.rows = second.rows
                /\ first.shapes = second.shapes

\* C8 as amended: two runs of process_query on the same text end the same way
\* (the same exception, or rows from the same return statement), their rows
\* have the same shape, and their number is the same unless the query is
\* executed as a filter, where each run returns between 1 and 10 rows.
C8_SameShapeCountUnlessFilter ==
    previous # None =>
        LET first  == previous[1]
            second == Outcome(response, path)
        IN  /\ first.raised = second.raised
            /\ first.branch = second.branch
            /\ first.shapes = second.shapes
            /\ \/ first.rows = second.rows
               \/ /\ second.branch = "filter"
                  /\ second.raised = ""
                  /\ first.rows \in 1..10
                  /\ second.rows \in 1..10

\* the same filter text has been run twice and returned two different
\* numbers of rows
C8_Witness ==
    /\ previous # None
    /\ path.branch = "filter"
    /\ response.status = 200
    /\ previous[1].rows # Len(Rows(response))

\* C9: the executor takes one strategy for a translated query, in the
\* precedence aggregate, ordered, predicate, default, and returns 1 row for
\* an aggregate, the limit (10 when absent) for an ordered query, between 1
\* and 10 rows for a predicate query, 5 rows otherwise.
C9_RowCountByStrategy ==
    (op = "process_query" /\ path.sql # "") =>
        LET sql       == path.sql
            n         == Len(Rows(response))
            limit     == re_search(RE_LIMIT, sql)
            aggregate == re_search(RE_AGGREGATE, sql) # None
        IN  /\ response.status = 200
            /\ IF aggregate THEN path.branch = "aggregate" /\ n = 1
               ELSE IF Contains(sql, " ORDER BY ")
               THEN /\ path.branch = "ranking"
                    /\ n = (IF limit # None THEN int(limit[1]) ELSE 10)
               ELSE IF Contains(sql, " WHERE ")
               THEN path.branch = "filter" /\ n \in 1..10
               ELSE path.branch = "default" /\ n = 5

\* the word or wildcard that follows the first occurrence of a keyword of the
\* pseudo-SQL ("" when the keyword does not occur)
ColumnAfter(sql, keyword) ==
    LET at == { i \in 1..Len(sql) : StartsWithAt(sql, keyword, i) }
    IN  IF at = {} THEN ""
        ELSE LET p == Min(at) + Len(keyword)
             IN  IF StartsWithAt(sql, "*", p) THEN "*"
                 ELSE SubSeq(sql, p, WordRunEnd(sql, p))

\* C10: a query produced by translation references only what the schema
\* registry holds: its table is a table of the registry and the columns of
\* its ordering, predicate and aggregate, the wildcard apart, are columns of
\* that table.
C10_QueryWithinRegistry ==
    (Translating /\ path.sql # "") =>
        LET sql     == path.sql
            from    == re_search(RE_FROM, sql)
            agg     == re_search(RE_AGGREGATE, sql)
            columns == { ColumnAfter(sql, " ORDER BY "), ColumnAfter(sql, " WHERE ") }
                         \cup (IF agg # None THEN { agg[2] } ELSE {})
        IN  /\ from # None
            /\ from[1] \in DOMAIN schemas
            /\ \A col \in columns \ { "", "*" } :
                   \E j \in DOMAIN schemas[from[1]] : schemas[from[1]][j] = col

\* the name of the field of an aggregate row
AggregateName == [SUM |-> "sum", AVG |-> "avg", COUNT |-> "count"]

\* the last call executed the aggregate query of parts p and returned a
\* single row with the single field agg(column), an integer of lo..hi
AggregateRow(p, lo, hi) ==
    LET ret == invocation.ret
    IN  /\ ret.raised = ""
        /\ Len(ret.result) = 1
        /\ Len(ret.result[1]) = 1
        /\ ret.result[1][1][1] = AggregateName[Aggregates[p[1]]] \o "(" \o p[2][1] \o ")"
        /\ ret.result[1][1][2] \in lo..hi

ExecutedAggregate(p) ==
    /\ invocation.method = "_execute_mock_query"
    /\ invocation.args = << AggregateText(p) >>

\* C11 as stated: executing an aggregate query (sum, avg or count over a
\* column) returns a single row with a single field, named after the
\* aggregate and its column, whose value v is an integer with
\* 1000 <= v < 100000.
C11_AggregateBelowMax ==
    \A p \in AggregateParts : ExecutedAggregate(p) => AggregateRow(p, 1000, 99999)

\* C11, amended: executing an aggregate query returns a single row with a
\* single field, named after the aggregate and its column, whose value v is
\* an integer with 1000 <= v <= 100000, both ends included.
C11_AggregateWithinEnds ==
    \A p \in AggregateParts : ExecutedAggregate(p) => AggregateRow(p, 1000, 100000)

\* an aggregate query was executed and returned the upper end, 100000
C11_Witness ==
    \E p \in AggregateParts : ExecutedAggregate(p) /\ AggregateRow(p, 100000, 100000)

\* the values each registered generator can return (lines 32-41)
GeneratorValues ==
    [ name      |-> { "John", "Jane", "Bob", "Alice", "Charlie", "Eve" },
      email     |-> { "john@example.com", "jane@example.com", "bob@example.com" },
      revenue   |-> 1000..100000,
      region    |-> { "North", "South", "East", "West" },
      date      |-> { "2023-" \o Format02d(m) \o "-" \o Format02d(d) :
                          m \in 1..12, d \in 1..28 },
      price     |-> 10..1000,
      inventory |-> 0..500,
      amount    |-> { 10 * i : i \in 1..100 },
      salary    |-> 30000..120000,
      category  |-> { "Electronics", "Clothing", "Food", "Furniture" } ]

\* v is a value the column col may hold
ColumnHolds(col, v) ==
    IF EndsWith(col, "_id") THEN v \in 1..50
    ELSE IF col \in DOMAIN GeneratorValues THEN v \in GeneratorValues[col]
    ELSE IF col = "id" THEN v \in Int
    ELSE v = ""

\* C12: for every table of the schema registry and every row count n >= 0,
\* _generate_mock_records returns exactly n records, each with every column
\* of the table's schema in the declared order, none omitted; an "_id"
\* column holds an integer of 1..50, a column with a registered generator a
\* value of that generator, the "id" column an integer, and every other
\* column the empty placeholder.
C12_RecordsComplete ==
    (invocation.method = "_generate_mock_records"
       /\ invocation.args[1] \in DOMAIN schemas) =>
        LET columns == schemas[invocation.args[1]]
            n       == invocation.args[2]
            ret     == invocation.ret
        IN  /\ ret.raised = ""
            /\ Len(ret.records) = n
            /\ \A r \in 1..n :
                   /\ FieldNames(ret.records[r]) = columns
                   /\ \A j \in DOMAIN columns :
                          ColumnHolds(columns[j], ret.records[r][j][2])

\* MaxCount records of sales were generated, the first of them with the
\* product key 50 and the customer key 1
C12_Witness ==
    /\ invocation.method = "_generate_mock_records"
    /\ invocation.args = << "sales", MaxCount >>
    /\ Len(invocation.ret.records) = MaxCount
    /\ invocation.ret.records[1][2] = << "product_id", 50 >>
    /\ invocation.ret.records[1][3] = << "customer_id", 1 >>

\* C13: validation is a sound pre-flight check: when validate_query returns
\* is_valid = true for a text, process_query on the same text completes
\* without error and returns at least one row.
C13_ValidationSound ==
    [][ ( /\ op = "validate_query"
          /\ response.body.is_valid
          /\ op' = "process_query"
          /\ request' = request )
        => ( /\ response'.status = 200
             /\ Len(Rows(response')) >= 1 ) ]_vars

\* C14: construction of a QueryProcessor always completes: the schema
\* registry, the generators and the pattern list with every handler it
\* names exist by the time construction reads them, and after any number of
\* constructions on the same connection, starting from empty tables, each of
\* the four tables holds exactly 50 mock rows.
C14_ConstructionCompletes ==
    construction.done =>
        /\ construction.raised = ""
        /\ { "patterns", "schemas", "data_generators" } \subseteq construction.attrs
        /\ construction.before = EmptyTables =>
               \A i \in DOMAIN TableNames : db[i] = 50

====
